---- MODULE Spec2Model ----
(***************************************************************************)
(* PromptPress: the text-reduction pipeline (contraction merge, tokenizer, *)
(* stopword filter, stemmer family, reassembly) as pure operators over     *)
(* strings, applied by the actions of the specifications below.            *)
(*                                                                         *)
(* A JavaScript string is a TLA+ string; its i-th UTF-16 unit (1-based) is *)
(* Char(s, i).  A token list is a sequence of strings.                     *)
(***************************************************************************)
EXTENDS Integers, Sequences, FiniteSets, TLC

VARIABLES
    text,        \* the string argument of trim or of a tokenizer function
    options,     \* trim's `options` argument, every field given
    result,      \* what the call returned: [kind |-> "string", value |-> s]
                 \* or [kind |-> "TypeError"], or NoResult before the call
    word,        \* stem's `word` argument (SpecStem)
    stemmerType, \* getStemmer's `type` argument (SpecStem)
    locals,      \* trim's locals when it ended: tokens, processedTokens
    compressed,  \* the second string argument of the statistics functions
    encodeCalls, \* the calls of the token encoder: its text, how it ended
    console,     \* the messages written with console.error
    pc,          \* "init" before the call, the call made after it
    copyBtn,     \* the copy button: its textContent and backgroundColor
    pendingWrites, \* copyToClipboard calls waiting at their await
    timers,      \* the pending reset timers, oldest first: each holds the
                 \* originalText its callback writes back
    clicks,      \* the clicks made on the copy button
    alerts       \* the messages shown with alert

vars == <<text, options, result, word, stemmerType, locals, compressed,
          encodeCalls, console, pc, copyBtn, pendingWrites, timers, clicks,
          alerts>>

\* The page's state, which the library's functions leave alone.
page == <<copyBtn, pendingWrites, timers, clicks, alerts>>

\* The button's label in the page's markup, which is not among the sources.
InitialLabel == "Copy"

\* The page after compressText, before any click on the copy button.
InitPage ==
    /\ copyBtn = [textContent |-> InitialLabel, backgroundColor |-> ""]
    /\ pendingWrites = 0
    /\ timers = << >>
    /\ clicks = 0
    /\ alerts = << >>

NoResult == [kind |-> "none"]

NoLocals == [kind |-> "none"]

(***************************************************************************)
(* Characters and the regular-expression classes \w and \s.                *)
(***************************************************************************)
Char(s, i) == SubSeq(s, i, i)

UpperLetters == {"A","B","C","D","E","F","G","H","I","J","K","L","M",
                 "N","O","P","Q","R","S","T","U","V","W","X","Y","Z"}

LowerLetters == {"a","b","c","d","e","f","g","h","i","j","k","l","m",
                 "n","o","p","q","r","s","t","u","v","w","x","y","z"}

Digits == {"0","1","2","3","4","5","6","7","8","9"}

\* One non-ASCII letter stands for the scripts outside the ASCII word class:
\* U+00E9 (e acute), whose upper case is U+00C9.  The module is kept in
\* ASCII, so the two units are written "#" and "^" here; no input holds
\* the ASCII characters # and ^ themselves.
NonAsciiLetter == "#"

NonAsciiUpper == "^"

LowerOf ==
    ("A" :> "a") @@ ("B" :> "b") @@ ("C" :> "c") @@ ("D" :> "d") @@
    ("E" :> "e") @@ ("F" :> "f") @@ ("G" :> "g") @@ ("H" :> "h") @@
    ("I" :> "i") @@ ("J" :> "j") @@ ("K" :> "k") @@ ("L" :> "l") @@
    ("M" :> "m") @@ ("N" :> "n") @@ ("O" :> "o") @@ ("P" :> "p") @@
    ("Q" :> "q") @@ ("R" :> "r") @@ ("S" :> "s") @@ ("T" :> "t") @@
    ("U" :> "u") @@ ("V" :> "v") @@ ("W" :> "w") @@ ("X" :> "x") @@
    ("Y" :> "y") @@ ("Z" :> "z")

UpperOf ==
    ("a" :> "A") @@ ("b" :> "B") @@ ("c" :> "C") @@ ("d" :> "D") @@
    ("e" :> "E") @@ ("f" :> "F") @@ ("g" :> "G") @@ ("h" :> "H") @@
    ("i" :> "I") @@ ("j" :> "J") @@ ("k" :> "K") @@ ("l" :> "L") @@
    ("m" :> "M") @@ ("n" :> "N") @@ ("o" :> "O") @@ ("p" :> "P") @@
    ("q" :> "Q") @@ ("r" :> "R") @@ ("s" :> "S") @@ ("t" :> "T") @@
    ("u" :> "U") @@ ("v" :> "V") @@ ("w" :> "W") @@ ("x" :> "X") @@
    ("y" :> "Y") @@ ("z" :> "Z") @@ (NonAsciiLetter :> NonAsciiUpper)


\* String.prototype.toLowerCase / toUpperCase on one UTF-16 unit.
toLowerCaseChar(c) == IF c \in UpperLetters THEN LowerOf[c]
                      ELSE IF c = NonAsciiUpper THEN NonAsciiLetter ELSE c

toUpperCaseChar(c) == IF c \in DOMAIN UpperOf THEN UpperOf[c] ELSE c

RECURSIVE toLowerCase(_)
toLowerCase(s) ==
    IF s = "" THEN ""
    ELSE toLowerCaseChar(Char(s, 1)) \o toLowerCase(SubSeq(s, 2, Len(s)))

\* \w : [A-Za-z0-9_]
IsW(c) == c \in UpperLetters \cup LowerLetters \cup Digits \cup {"_"}

\* \s : the white-space units the inputs use
IsS(c) == c \in {" ", "\t", "\n"}

\* [\w'] , the class of tokenize's first alternative and of isWord
IsWordClass(c) == IsW(c) \/ c = "'"

\* [^\w\s] , the class of tokenize's second alternative and of isPunctuation
IsOtherClass(c) == ~IsW(c) /\ ~IsS(c)

(***************************************************************************)
(* Tokenizer (tokenizer module).                                           *)
(***************************************************************************)
\* The end (exclusive) of the maximal run of [\w'] units starting at i.
RECURSIVE WordRunEnd(_, _)
WordRunEnd(s, i) ==
    IF i <= Len(s) /\ IsWordClass(Char(s, i)) THEN WordRunEnd(s, i + 1) ELSE i

\* text.match(/[\w']+|[^\w\s]/g) || [] , scanning from unit i.
RECURSIVE MatchTokensFrom(_, _)
MatchTokensFrom(s, i) ==
    IF i > Len(s) THEN << >>
    ELSE IF IsWordClass(Char(s, i))
         THEN LET j == WordRunEnd(s, i)
              IN  <<SubSeq(s, i, j - 1)>> \o MatchTokensFrom(s, j)
    ELSE IF IsOtherClass(Char(s, i))
         THEN <<Char(s, i)>> \o MatchTokensFrom(s, i + 1)
    ELSE MatchTokensFrom(s, i + 1)

tokenize(s) == MatchTokensFrom(s, 1)

\* /^[\w']+$/.test(token)
isWord(token) ==
    /\ Len(token) >= 1
    /\ \A i \in 1..Len(token) : IsWordClass(Char(token, i))

\* /^[^\w\s]$/.test(token)
isPunctuation(token) ==
    /\ Len(token) = 1
    /\ IsOtherClass(Char(token, 1))

\* text.replace(/(\w)'(\w)/g, '$1$2'), scanning from unit i: a match consumes
\* its three units, so the search resumes after the second \w.
RECURSIVE ReplaceContractionsFrom(_, _)
ReplaceContractionsFrom(s, i) ==
    IF i > Len(s) THEN ""
    ELSE IF /\ i + 2 <= Len(s)
            /\ IsW(Char(s, i))
            /\ Char(s, i + 1) = "'"
            /\ IsW(Char(s, i + 2))
         THEN Char(s, i) \o Char(s, i + 2) \o ReplaceContractionsFrom(s, i + 3)
    ELSE Char(s, i) \o ReplaceContractionsFrom(s, i + 1)

mergeContractions(s) == ReplaceContractionsFrom(s, 1)

(***************************************************************************)
(* String helpers of the stemmers.                                         *)
(***************************************************************************)
endsWith(w, suffix) ==
    /\ Len(w) >= Len(suffix)
    /\ SubSeq(w, Len(w) - Len(suffix) + 1, Len(w)) = suffix

\* w.slice(0, -n) for n >= 1
dropLast(w, n) == SubSeq(w, 1, Len(w) - n)

\* getCase: 'U' where c === c.toUpperCase(), else 'L'
RECURSIVE getCase(_)
getCase(w) ==
    IF w = "" THEN ""
    ELSE (IF Char(w, 1) = toUpperCaseChar(Char(w, 1)) THEN "U" ELSE "L")
         \o getCase(SubSeq(w, 2, Len(w)))

\* restoreCase, from unit i of w on
RECURSIVE RestoreCaseFrom(_, _, _)
RestoreCaseFrom(w, casePattern, i) ==
    IF i > Len(w) THEN ""
    ELSE (IF i <= Len(casePattern) /\ Char(casePattern, i) = "U"
          THEN toUpperCaseChar(Char(w, i)) ELSE Char(w, i))
         \o RestoreCaseFrom(w, casePattern, i + 1)

\* Mutant of restoreCase: the recorded pattern is never re-applied.
restoreCase_Forgets(w, casePattern) == w

restoreCase(w, casePattern) == RestoreCaseFrom(w, casePattern, 1)

(***************************************************************************)
(* PorterStemmer.                                                          *)
(***************************************************************************)
\* /[aeiou]/ and /[^aeiou]/ on one unit
vowels(c) == c \in {"a", "e", "i", "o", "u"}

consonant(c) == ~vowels(c)

hasVowel(w) == \E i \in 1..Len(w) : vowels(Char(w, i))

\* measure: the number of vowel-to-consonant transitions, scanning from unit i
RECURSIVE MeasureFrom(_, _, _)
MeasureFrom(w, i, previousWasVowel) ==
    IF i > Len(w) THEN 0
    ELSE LET isVowel == vowels(Char(w, i))
         IN  (IF ~isVowel /\ previousWasVowel THEN 1 ELSE 0)
             + MeasureFrom(w, i + 1, isVowel)

measure(w) == MeasureFrom(w, 1, FALSE)

endsWithDoubleConsonant(w) ==
    /\ Len(w) >= 2
    /\ Char(w, Len(w)) = Char(w, Len(w) - 1)
    /\ consonant(Char(w, Len(w)))

endsWithCVC(w) ==
    /\ Len(w) >= 3
    /\ consonant(Char(w, Len(w) - 2))
    /\ vowels(Char(w, Len(w) - 1))
    /\ consonant(Char(w, Len(w)))
    /\ Char(w, Len(w)) \notin {"w", "x", "y"}

step1a(w) ==
    IF endsWith(w, "sses") THEN dropLast(w, 2)
    ELSE IF endsWith(w, "ies") THEN dropLast(w, 2)
    ELSE IF endsWith(w, "ss") THEN w
    ELSE IF endsWith(w, "s") THEN dropLast(w, 1)
    ELSE w

step1bHelper(w) ==
    IF endsWith(w, "at") \/ endsWith(w, "bl") \/ endsWith(w, "iz")
    THEN w \o "e"
    ELSE IF /\ endsWithDoubleConsonant(w)
            /\ ~endsWith(w, "l") /\ ~endsWith(w, "s") /\ ~endsWith(w, "z")
    THEN dropLast(w, 1)
    ELSE IF measure(w) = 1 /\ endsWithCVC(w)
    THEN w \o "e"
    ELSE w

\* Mutant of step1b: "ed" and "ing" are removed without the test for a
\* vowel in what is left.
step1b_NoVowelTest(w) ==
    IF endsWith(w, "eed")
    THEN IF measure(dropLast(w, 3)) > 0 THEN dropLast(w, 1) ELSE w
    ELSE IF endsWith(w, "ed") THEN step1bHelper(dropLast(w, 2))
    ELSE IF endsWith(w, "ing") THEN step1bHelper(dropLast(w, 3))
    ELSE w

\* Mutant of step1b: "eed" stays when the stem's measure is > 0 and is
\* removed whole otherwise.
step1b_EedDropped(w) ==
    IF endsWith(w, "eed")
    THEN IF measure(dropLast(w, 3)) > 0 THEN w ELSE dropLast(w, 3)
    ELSE IF endsWith(w, "ed") /\ hasVowel(dropLast(w, 2))
    THEN step1bHelper(dropLast(w, 2))
    ELSE IF endsWith(w, "ing") /\ hasVowel(dropLast(w, 3))
    THEN step1bHelper(dropLast(w, 3))
    ELSE w

step1b(w) ==
    IF endsWith(w, "eed")
    THEN IF measure(dropLast(w, 3)) > 0 THEN dropLast(w, 1) ELSE w
    ELSE IF endsWith(w, "ed") /\ hasVowel(dropLast(w, 2))
    THEN step1bHelper(dropLast(w, 2))
    ELSE IF endsWith(w, "ing") /\ hasVowel(dropLast(w, 3))
    THEN step1bHelper(dropLast(w, 3))
    ELSE w

step1c(w) ==
    IF endsWith(w, "y") /\ hasVowel(dropLast(w, 1))
    THEN dropLast(w, 1) \o "i"
    ELSE w

step2Suffixes ==
    << <<"ational", "ate">>, <<"tional", "tion">>, <<"enci", "ence">>,
       <<"anci", "ance">>, <<"izer", "ize">>, <<"abli", "able">>,
       <<"alli", "al">>, <<"entli", "ent">>, <<"eli", "e">>,
       <<"ousli", "ous">>, <<"ization", "ize">>, <<"ation", "ate">>,
       <<"ator", "ate">>, <<"alism", "al">>, <<"iveness", "ive">>,
       <<"fulness", "ful">>, <<"ousness", "ous">>, <<"aliti", "al">>,
       <<"iviti", "ive">>, <<"biliti", "ble">> >>

step3Suffixes ==
    << <<"icate", "ic">>, <<"ative", "">>, <<"alize", "al">>,
       <<"iciti", "ic">>, <<"ical", "ic">>, <<"ful", "">>, <<"ness", "">> >>

\* The loop of step2 and step3 over Object.entries(suffixes), from entry k:
\* an entry whose suffix matches but whose stem fails the measure gate does
\* not return, and the loop goes on to the next entry.
RECURSIVE ReplaceSuffixFrom(_, _, _)
ReplaceSuffixFrom(w, suffixes, k) ==
    IF k > Len(suffixes) THEN w
    ELSE LET suffix      == suffixes[k][1]
             replacement == suffixes[k][2]
         IN  IF endsWith(w, suffix) /\ measure(dropLast(w, Len(suffix))) > 0
             THEN dropLast(w, Len(suffix)) \o replacement
             ELSE ReplaceSuffixFrom(w, suffixes, k + 1)

step2(w) == ReplaceSuffixFrom(w, step2Suffixes, 1)

step3(w) == ReplaceSuffixFrom(w, step3Suffixes, 1)

step4Suffixes ==
    <<"al", "ance", "ence", "er", "ic", "able", "ible", "ant",
      "ement", "ment", "ent", "ion", "ou", "ism", "ate", "iti",
      "ous", "ive", "ize">>

\* The loop of step4 from entry k.  Both branches of the "ion" test return
\* the stem exactly when its measure is > 1.
RECURSIVE RemoveSuffixFrom(_, _)
RemoveSuffixFrom(w, k) ==
    IF k > Len(step4Suffixes) THEN w
    ELSE LET suffix == step4Suffixes[k]
             stem   == dropLast(w, Len(suffix))
         IN  IF endsWith(w, suffix)
             THEN IF suffix = "ion" /\ (endsWith(stem, "s") \/ endsWith(stem, "t"))
                  THEN IF measure(stem) > 1 THEN stem
                       ELSE RemoveSuffixFrom(w, k + 1)
                  ELSE IF measure(stem) > 1 THEN stem
                       ELSE RemoveSuffixFrom(w, k + 1)
             ELSE RemoveSuffixFrom(w, k + 1)

step4(w) == RemoveSuffixFrom(w, 1)

step5(w) ==
    LET stem == dropLast(w, 1)
        m    == measure(stem)
    IN  IF endsWith(w, "e") /\ (m > 1 \/ (m = 1 /\ ~endsWithCVC(stem)))
        THEN stem
        ELSE IF endsWith(w, "ll") /\ measure(w) > 1
        THEN dropLast(w, 1)
        ELSE w

PorterStem(w0) ==
    IF Len(w0) < 3 THEN w0
    ELSE restoreCase(
           step5(step4(step3(step2(step1c(step1b(step1a(toLowerCase(w0)))))))),
           getCase(w0))

(***************************************************************************)
(* LancasterStemmer.                                                       *)
(***************************************************************************)
\* Mutant of rules: the same rules, shortest suffixes first.
rules_ShortestFirst ==
    << <<"s", "">>, <<"es", "">>, <<"y", "i">>, <<"ly", "">>,
       <<"er", "">>, <<"ed", "">>, <<"ing", "">>, <<"izer", "">>,
       <<"ator", "e">>, <<"tion", "t">>, <<"sion", "t">>, <<"ment", "">>,
       <<"ible", "">>, <<"able", "">>, <<"ence", "">>, <<"ance", "">>,
       <<"ness", "">>, <<"ical", "">>, <<"iciti", "">>, <<"alize", "">>,
       <<"ative", "">>, <<"icate", "">>, <<"biliti", "le">>,
       <<"tional", "e">>, <<"ization", "e">>, <<"ousness", "e">>,
       <<"fulness", "e">>, <<"iveness", "e">>, <<"ational", "e">> >>

rules ==
    << <<"ational", "e">>, <<"iveness", "e">>, <<"fulness", "e">>,
       <<"ousness", "e">>, <<"ization", "e">>, <<"tional", "e">>,
       <<"biliti", "le">>, <<"icate", "">>, <<"ative", "">>,
       <<"alize", "">>, <<"iciti", "">>, <<"ical", "">>, <<"ness", "">>,
       <<"ance", "">>, <<"ence", "">>, <<"able", "">>, <<"ible", "">>,
       <<"ment", "">>, <<"sion", "t">>, <<"tion", "t">>, <<"ator", "e">>,
       <<"izer", "">>, <<"ing", "">>, <<"ed", "">>, <<"er", "">>,
       <<"ly", "">>, <<"y", "i">>, <<"es", "">>, <<"s", "">> >>

\* The loop over rules from rule k: the first rule that matches and leaves
\* at least 2 units before its suffix is applied, and the loop breaks.
RECURSIVE ApplyRuleFrom(_, _)
ApplyRuleFrom(w, k) ==
    IF k > Len(rules) THEN w
    ELSE LET suffix == rules[k][1]
         IN  IF endsWith(w, suffix) /\ Len(w) - Len(suffix) >= 2
             THEN dropLast(w, Len(suffix)) \o rules[k][2]
             ELSE ApplyRuleFrom(w, k + 1)

LancasterStem(w0) ==
    IF Len(w0) < 3 THEN w0
    ELSE restoreCase(ApplyRuleFrom(toLowerCase(w0), 1), getCase(w0))

\* Mutant of SnowballStem: the class has rules of its own.
SnowballStem_OwnRules(w) == LancasterStem(w)

\* SnowballStemmer.stem: the class body is empty, so stem is the one it
\* inherits from PorterStemmer.
SnowballStem(w) == PorterStem(w)

\* getStemmer(type).stem(w); the switch's default is a PorterStemmer.
getStemmer(type, w) ==
    CASE type = "porter"    -> PorterStem(w)
      [] type = "snowball"  -> SnowballStem(w)
      [] type = "lancaster" -> LancasterStem(w)
      [] OTHER              -> PorterStem(w)

(***************************************************************************)
(* Stopword and negation tables (data module).                             *)
(***************************************************************************)
\* The stopword table: a plain object from language tag to word list.
stopwords ==
    [english |-> <<"the", "is", "at", "over", "not">>,
     spanish |-> <<"el", "la">>]

negationWords == {"not"}

\* Property names every plain object inherits from Object.prototype; the
\* value found under such a name is not an array.
ObjectPrototypeKeys == {"constructor"}

\* stopwords[language] || stopwords.english : an own key gives its list, an
\* inherited name gives a truthy non-array (marked NotAnArray), any other
\* name gives undefined and so the english list.
NotAnArray == <<"[object Function]">>

langStopwords(language) ==
    IF language \in DOMAIN stopwords THEN stopwords[language]
    ELSE IF language \in ObjectPrototypeKeys THEN NotAnArray
    ELSE stopwords.english

\* new Set(langStopwords.map(w => w.toLowerCase()))
stopwordSet(language) ==
    {toLowerCase(langStopwords(language)[k]) :
        k \in 1..Len(langStopwords(language))}

(***************************************************************************)
(* Reduction pipeline (promptpress module).                                *)
(***************************************************************************)
\* One iteration of the loop of step 4: what the token adds to
\* processedTokens.
processToken(token, opts) ==
    IF isPunctuation(token)
    THEN IF ~opts.removePunctuation THEN <<token>> ELSE << >>
    ELSE IF isWord(token)
    THEN LET lowerToken == toLowerCase(token)
         IN  IF /\ opts.removeStopwords
                /\ lowerToken \in stopwordSet(opts.language)
                /\ lowerToken \notin negationWords
             THEN << >>
             ELSE IF opts.useStemming
                  THEN <<getStemmer(opts.stemmer, token)>>
                  ELSE <<token>>
    ELSE << >>

RECURSIVE processTokensFrom(_, _, _)
processTokensFrom(tokens, opts, k) ==
    IF k > Len(tokens) THEN << >>
    ELSE processToken(tokens[k], opts) \o processTokensFrom(tokens, opts, k + 1)

RECURSIVE Reversed(_)
Reversed(toks) ==
    IF toks = << >> THEN << >> ELSE Reversed(Tail(toks)) \o <<Head(toks)>>

\* Mutant of processTokens: each token is put in front of the earlier ones.
processTokens_Prepends(tokens, opts) ==
    Reversed(processTokensFrom(tokens, opts, 1))

\* processedTokens after the loop of step 4
processTokens(tokens, opts) == processTokensFrom(tokens, opts, 1)

\* Mutant of joinNoSpaces: a single space is put between two tokens.
RECURSIVE joinNoSpaces_Separated(_)
joinNoSpaces_Separated(toks) ==
    IF toks = << >> THEN ""
    ELSE IF Len(toks) = 1 THEN Head(toks)
    ELSE Head(toks) \o " " \o joinNoSpaces_Separated(Tail(toks))

\* processedTokens.join('')
RECURSIVE joinNoSpaces(_)
joinNoSpaces(toks) ==
    IF toks = << >> THEN "" ELSE Head(toks) \o joinNoSpaces(Tail(toks))

\* Mutant of joinPiece: the first token gets a separator like the others.
joinPiece_LeadingSeparator(toks, i) ==
    IF isPunctuation(toks[i]) THEN toks[i] ELSE " " \o toks[i]

\* What iteration i of the joining loop appends to result.
joinPiece(toks, i) ==
    IF i = 1 THEN toks[i]
    ELSE IF isPunctuation(toks[i]) THEN toks[i]
    ELSE IF i > 1 /\ isPunctuation(toks[i - 1]) THEN " " \o toks[i]
    ELSE " " \o toks[i]

RECURSIVE joinWithSpacesFrom(_, _)
joinWithSpacesFrom(toks, i) ==
    IF i > Len(toks) THEN ""
    ELSE joinPiece(toks, i) \o joinWithSpacesFrom(toks, i + 1)

joinTokens(toks, opts) ==
    IF opts.removeSpaces THEN joinNoSpaces(toks)
    ELSE joinWithSpacesFrom(toks, 1)

\* trim's local `tokens` (steps 1 and 2) and `processedTokens` (step 4)
trimTokens(t) == tokenize(mergeContractions(t))

trimProcessedTokens(t, opts) == processTokens(trimTokens(t), opts)

\* trim's locals when it ends: tokens always; processedTokens unless
\* langStopwords.map raised at step 3, before processedTokens is declared
\* (langStopwords is then not an array).
trimLocals(t, opts) ==
    IF langStopwords(opts.language) = NotAnArray
    THEN [tokens |-> trimTokens(t)]
    ELSE [tokens |-> trimTokens(t),
          processedTokens |-> trimProcessedTokens(t, opts)]

\* How trim ends with locals l: the TypeError of step 3, or the string that
\* step 5 joins from processedTokens.
trimReturn(l, opts) ==
    IF "processedTokens" \notin DOMAIN l
    THEN [kind |-> "TypeError"]
    ELSE [kind |-> "string", value |-> joinTokens(l.processedTokens, opts)]

\* trim(text, options)
trim(t, opts) == trimReturn(trimLocals(t, opts), opts)

(***************************************************************************)
(* JavaScript numbers: IEEE 754 binary64, round to nearest, ties to even.  *)
(* A non-zero number is sign * m * 2^e, where the significand m has        *)
(* exactly Precision bits.  A natural number of any size (a significand, a *)
(* product of two) is a sequence of limbs of LimbBits bits, least          *)
(* significant first and without leading zero limbs; << >> is 0.  Only the *)
(* operations the statistics functions use are defined, and exponents stay *)
(* far from the subnormal and overflow ranges for the magnitudes involved. *)
(***************************************************************************)
Precision == 53

LimbBits == 10

\* Extra quotient bits a division produces before rounding: a divisor below
\* 2^20 then leaves at least Precision + 2 significant bits.
GuardBits == 24

\* F(v), with v evaluated once however often F uses it.
Once(v, F(_)) == CHOOSE r \in {F(x) : x \in {v}} : TRUE

RECURSIVE Pow2(_)
Pow2(n) == IF n = 0 THEN 1 ELSE 2 * Pow2(n - 1)

Base == Pow2(LimbBits)

Zeros(n) == IF n <= 0 THEN << >> ELSE [i \in 1..n |-> 0]

Limb(a, i) == IF i <= Len(a) THEN a[i] ELSE 0

RECURSIVE Normalize(_)
Normalize(a) ==
    IF a # << >> /\ a[Len(a)] = 0 THEN Normalize(SubSeq(a, 1, Len(a) - 1))
    ELSE a

\* The limbs of an integer k >= 0
RECURSIVE FromSmall(_)
FromSmall(k) ==
    IF k = 0 THEN << >> ELSE <<k % Base>> \o FromSmall(k \div Base)

\* The integer a stands for (it must be below 2^31)
RECURSIVE ToSmall(_)
ToSmall(a) == IF a = << >> THEN 0 ELSE a[1] + Base * ToSmall(Tail(a))

RECURSIVE SmallBitLength(_)
SmallBitLength(k) == IF k = 0 THEN 0 ELSE 1 + SmallBitLength(k \div 2)

BitLength(a) ==
    IF a = << >> THEN 0
    ELSE LimbBits * (Len(a) - 1) + SmallBitLength(a[Len(a)])

IsOdd(a) == a # << >> /\ a[1] % 2 = 1

RECURSIVE AddFrom(_, _, _, _)
AddFrom(a, b, i, carry) ==
    IF i > Len(a) /\ i > Len(b) THEN FromSmall(carry)
    ELSE LET t == Limb(a, i) + Limb(b, i) + carry
         IN  <<t % Base>> \o AddFrom(a, b, i + 1, t \div Base)

AddNat(a, b) == AddFrom(a, b, 1, 0)

\* a - b for a >= b
RECURSIVE SubFrom(_, _, _, _)
SubFrom(a, b, i, borrow) ==
    IF i > Len(a) THEN << >>
    ELSE LET t == a[i] - Limb(b, i) - borrow
         IN  <<IF t < 0 THEN t + Base ELSE t>>
                 \o SubFrom(a, b, i + 1, IF t < 0 THEN 1 ELSE 0)

SubNat(a, b) == Normalize(SubFrom(a, b, 1, 0))

\* a < b, comparing limbs of equal-length numbers from limb i down
RECURSIVE LessFrom(_, _, _)
LessFrom(a, b, i) ==
    IF i = 0 THEN FALSE
    ELSE IF a[i] # b[i] THEN a[i] < b[i]
    ELSE LessFrom(a, b, i - 1)

LessNat(a, b) ==
    IF Len(a) # Len(b) THEN Len(a) < Len(b) ELSE LessFrom(a, b, Len(a))

\* a * k + carry for an integer 0 <= k < 2^20
RECURSIVE MulSmallFrom(_, _, _, _)
MulSmallFrom(a, k, i, carry) ==
    IF i > Len(a) THEN FromSmall(carry)
    ELSE LET t == a[i] * k + carry
         IN  <<t % Base>> \o MulSmallFrom(a, k, i + 1, t \div Base)

MulSmall(a, k) == Normalize(MulSmallFrom(a, k, 1, 0))

\* a * b, one limb of b at a time from limb j
RECURSIVE MulFrom(_, _, _)
MulFrom(a, b, j) ==
    IF j > Len(b) THEN << >>
    ELSE Once(MulFrom(a, b, j + 1),
              LAMBDA higher :
                  AddNat(MulSmall(a, b[j]),
                         IF higher = << >> THEN << >> ELSE <<0>> \o higher))

MulNat(a, b) == MulFrom(a, b, 1)

\* Long division of a by an integer 0 < d < 2^21, from limb i down with
\* remainder r: the quotient's limbs and the final remainder.
RECURSIVE DivFrom(_, _, _, _)
DivFrom(a, d, i, r) ==
    IF i = 0 THEN [q |-> << >>, r |-> r]
    ELSE Once(r * Base + a[i],
              LAMBDA t :
                  Once(DivFrom(a, d, i - 1, t % d),
                       LAMBDA rest :
                           [q |-> rest.q \o <<t \div d>>, r |-> rest.r]))

DivSmall(a, d) ==
    Once(DivFrom(a, d, Len(a), 0),
         LAMBDA res : [q |-> Normalize(res.q), r |-> res.r])

\* a * 2^s
ShiftLeft(a, s) ==
    IF a = << >> THEN << >>
    ELSE MulSmall(Zeros(s \div LimbBits) \o a, Pow2(s % LimbBits))

\* floor(a / 2^s), and whether a non-zero bit was shifted out
ShiftRightValue(a, s) ==
    LET k    == s \div LimbBits
        low  == SubSeq(a, 1, IF k < Len(a) THEN k ELSE Len(a))
        high == IF k < Len(a) THEN SubSeq(a, k + 1, Len(a)) ELSE << >>
    IN  Once(DivSmall(high, Pow2(s % LimbBits)),
             LAMBDA res :
                 [q    |-> res.q,
                  lost |-> res.r # 0 \/ \E i \in 1..Len(low) : low[i] # 0])

ShiftRight(a, s) == Once(a, LAMBDA v : ShiftRightValue(v, s))

Zero == [sign |-> 0, m |-> << >>, e |-> 0]

\* The last step of rounding: the kept bits go up by one when the first
\* dropped bit is set and either a later one is or the kept bits are odd.
RoundUpValue(sign, keep, guard, rest, e) ==
    LET up == guard /\ (rest \/ IsOdd(keep))
    IN  Once(IF up THEN AddNat(keep, <<1>>) ELSE keep,
             LAMBDA r :
                 IF BitLength(r) > Precision
                 THEN [sign |-> sign, m |-> ShiftRight(r, 1).q, e |-> e + 1]
                 ELSE [sign |-> sign, m |-> r, e |-> e])

RoundUp(sign, keep0, guard, rest, e) ==
    Once(keep0, LAMBDA keep : RoundUpValue(sign, keep, guard, rest, e))

\* The number nearest to sign * (n + f) * 2^e, where 0 <= f < 1 and f > 0
\* exactly when `sticky`; a tie goes to the even significand.
RoundValue(sign, n, sticky, e) ==
    LET l == BitLength(n)
    IN  IF n = << >> THEN Zero
        ELSE IF l <= Precision
        THEN [sign |-> sign, m |-> ShiftLeft(n, Precision - l),
              e |-> e - (Precision - l)]
        ELSE Once(ShiftRight(n, l - Precision - 1),
                  LAMBDA sh :
                      RoundUp(sign, ShiftRight(sh.q, 1).q, IsOdd(sh.q),
                              sticky \/ sh.lost, e + (l - Precision)))

RoundToDouble(sign, n0, sticky, e) ==
    Once(Normalize(n0), LAMBDA n : RoundValue(sign, n, sticky, e))

\* An integer as a number
FromInt(k) ==
    IF k = 0 THEN Zero
    ELSE RoundToDouble(IF k < 0 THEN -1 ELSE 1,
                       FromSmall(IF k < 0 THEN -k ELSE k), FALSE, 0)

\* x * y
TimesValues(x, y) ==
    IF x.sign = 0 \/ y.sign = 0 THEN Zero
    ELSE RoundToDouble(x.sign * y.sign, MulNat(x.m, y.m), FALSE, x.e + y.e)

Times(x0, y0) ==
    Once(x0, LAMBDA x : Once(y0, LAMBDA y : TimesValues(x, y)))

\* x / d for a number x and an integer d with 0 < d < 2^20
DividedValue(x, d) ==
    IF x.sign = 0 THEN Zero
    ELSE Once(DivSmall(ShiftLeft(x.m, GuardBits), d),
              LAMBDA res :
                  RoundToDouble(x.sign, res.q, res.r # 0, x.e - GuardBits))

DividedByInt(x0, d) == Once(x0, LAMBDA x : DividedValue(x, d))

Negated(x) == [x EXCEPT !.sign = -x.sign]

\* sign * a * 2^e minus sign * b * 2^e when otherSign = sign, plus it when
\* not
Combined(sign, otherSign, a, b, e) ==
    IF sign # otherSign
    THEN RoundToDouble(sign, AddNat(a, b), FALSE, e)
    ELSE IF a = b THEN Zero
    ELSE IF LessNat(a, b)
    THEN RoundToDouble(-sign, SubNat(b, a), FALSE, e)
    ELSE RoundToDouble(sign, SubNat(a, b), FALSE, e)

MinusValues(x, y) ==
    IF y.sign = 0 THEN x
    ELSE IF x.sign = 0 THEN Negated(y)
    ELSE LET e == IF x.e < y.e THEN x.e ELSE y.e
         IN  Once(ShiftLeft(x.m, x.e - e),
                  LAMBDA a :
                      Once(ShiftLeft(y.m, y.e - e),
                           LAMBDA b : Combined(x.sign, y.sign, a, b, e)))

\* x - y
Minus(x0, y0) ==
    Once(x0, LAMBDA x : Once(y0, LAMBDA y : MinusValues(x, y)))

\* Math.round(x): the nearest integer, a tie going up (towards +infinity).
RoundedValue(x) ==
    IF x.sign = 0 THEN 0
    ELSE IF x.e >= 0 THEN x.sign * ToSmall(ShiftLeft(x.m, x.e))
    ELSE Once(ShiftRight(x.m, -x.e - 1),
              LAMBDA sh :
                  LET half  == IsOdd(sh.q)
                      whole == ToSmall(ShiftRight(sh.q, 1).q)
                  IN  IF x.sign > 0 THEN whole + (IF half THEN 1 ELSE 0)
                      ELSE -(whole + (IF half /\ sh.lost THEN 1 ELSE 0)))

MathRound(x0) == Once(x0, LAMBDA x : RoundedValue(x))

(***************************************************************************)
(* getCompressionStats (promptpress module).                               *)
(***************************************************************************)
\* s.split(/\s+/) from unit i, `cur` being the fragment under way: the
\* fragments between the white-space runs, the empty ones included.
RECURSIVE SplitFrom(_, _, _)
SplitFrom(s, i, cur) ==
    IF i > Len(s) THEN <<cur>>
    ELSE IF IsS(Char(s, i))
         THEN IF i > 1 /\ IsS(Char(s, i - 1)) THEN SplitFrom(s, i + 1, cur)
              ELSE <<cur>> \o SplitFrom(s, i + 1, "")
    ELSE SplitFrom(s, i + 1, cur \o Char(s, i))

NonEmpty(w) == Len(w) > 0

\* s.split(/\s+/).filter(w => w.length > 0).length
countWords(s) == Len(SelectSeq(SplitFrom(s, 1, ""), NonEmpty))

\* originalChars > 0
\*   ? Math.round(((originalChars - compressedChars) / originalChars) * 100)
\*   : 0
charReduction(originalChars, compressedChars) ==
    IF originalChars > 0
    THEN MathRound(Times(DividedByInt(FromInt(originalChars - compressedChars),
                                      originalChars), FromInt(100)))
    ELSE 0

getCompressionStats(original, compressedText) ==
    [originalChars   |-> Len(original),
     compressedChars |-> Len(compressedText),
     originalWords   |-> countWords(original),
     compressedWords |-> countWords(compressedText),
     charReduction   |-> charReduction(Len(original), Len(compressedText))]

(***************************************************************************)
(* Token counter (tokenCounter module).                                    *)
(***************************************************************************)
\* The price table, in the order of its entries; a price is written in
\* thousandths of a dollar per million tokens (2.00 is 2000, 0.15 is 150).
MODEL_PRICING ==
    << [model |-> "gpt-4.1",           input |-> 2000,   output |-> 8000],
       [model |-> "gpt-4.1-mini",      input |-> 400,    output |-> 1600],
       [model |-> "gpt-4.1-nano",      input |-> 100,    output |-> 400],
       [model |-> "gpt-4.5-preview",   input |-> 75000,  output |-> 150000],
       [model |-> "gpt-4o",            input |-> 2500,   output |-> 10000],
       [model |-> "gpt-4o-mini",       input |-> 150,    output |-> 600],
       [model |-> "o1",                input |-> 15000,  output |-> 60000],
       [model |-> "o1-pro",            input |-> 150000, output |-> 600000],
       [model |-> "o1-mini",           input |-> 1100,   output |-> 4400],
       [model |-> "o3-pro",            input |-> 20000,  output |-> 80000],
       [model |-> "o3",                input |-> 2000,   output |-> 8000],
       [model |-> "o3-mini",           input |-> 1100,   output |-> 4400],
       [model |-> "claude-opus-4",     input |-> 15000,  output |-> 75000],
       [model |-> "claude-sonnet-4",   input |-> 3000,   output |-> 15000],
       [model |-> "claude-sonnet-3.7", input |-> 3000,   output |-> 15000],
       [model |-> "claude-sonnet-3.5", input |-> 3000,   output |-> 15000],
       [model |-> "claude-haiku-3.5",  input |-> 800,    output |-> 4000],
       [model |-> "claude-opus-3",     input |-> 15000,  output |-> 75000],
       [model |-> "claude-haiku-3",    input |-> 250,    output |-> 1250] >>

\* The number a decimal price literal denotes: the one nearest to it.
Price(thousandths) == DividedByInt(FromInt(thousandths), 1000)

\* Mutant of countTokens: the encoder's failure is not caught.
countTokens_Uncaught(t, outcome) ==
    IF t = ""
    THEN [kind |-> "number", value |-> 0, calls |-> << >>, console |-> << >>]
    ELSE IF outcome.kind = "throws"
    THEN [kind |-> "Error", value |-> 0,
          calls |-> <<[text |-> t, outcome |-> outcome]>>, console |-> << >>]
    ELSE [kind |-> "number", value |-> outcome.length,
          calls |-> <<[text |-> t, outcome |-> outcome]>>, console |-> << >>]

\* countTokens(t) when the call encode(t), if made, ends as `outcome`: what
\* it returns, the calls it made to encode and what it logged.
countTokens(t, outcome) ==
    IF t = ""
    THEN [kind |-> "number", value |-> 0, calls |-> << >>, console |-> << >>]
    ELSE IF outcome.kind = "throws"
    THEN [kind |-> "number", value |-> 0,
          calls |-> <<[text |-> t, outcome |-> outcome]>>,
          console |-> <<"Error counting tokens:">>]
    ELSE [kind |-> "number", value |-> outcome.length,
          calls |-> <<[text |-> t, outcome |-> outcome]>>, console |-> << >>]

\* Mutant of tokensSaved: a negative saving is reported as 0.
tokensSaved_Clamped(originalTokens, compressedTokens) ==
    IF originalTokens > compressedTokens
    THEN originalTokens - compressedTokens ELSE 0

tokensSaved(originalTokens, compressedTokens) ==
    originalTokens - compressedTokens

\* originalTokens > 0 ? (tokensSaved / originalTokens) * 100 : 0
percentageSaved(originalTokens, compressedTokens) ==
    IF originalTokens > 0
    THEN Times(DividedByInt(
                   FromInt(tokensSaved(originalTokens, compressedTokens)),
                   originalTokens),
               FromInt(100))
    ELSE Zero

\* The record the map of costSavings makes of one entry of the price table.
costSaving(entry, originalTokens, compressedTokens) ==
    LET originalInputCost ==
            Times(DividedByInt(FromInt(originalTokens), 1000000),
                  Price(entry.input))
        compressedInputCost ==
            Times(DividedByInt(FromInt(compressedTokens), 1000000),
                  Price(entry.input))
    IN  Once(Minus(originalInputCost, compressedInputCost),
             LAMBDA savedCost :
                 [model      |-> entry.model,
                  inputCost  |-> savedCost,
                  outputCost |-> Zero,
                  totalCost  |-> savedCost])

costSavings(originalTokens, compressedTokens) ==
    [k \in 1..Len(MODEL_PRICING) |->
        costSaving(MODEL_PRICING[k], originalTokens, compressedTokens)]

\* calculateTokenSavings(originalText, compressedText) when its two calls of
\* countTokens meet the encoder outcomes o1 and o2.  An exception out of
\* countTokens would end the function there.
calculateTokenSavings(originalText, compressedText, o1, o2) ==
    LET first  == countTokens(originalText, o1)
        second == countTokens(compressedText, o2)
    IN  IF first.kind # "number" THEN first
        ELSE IF second.kind # "number"
        THEN [second EXCEPT !.calls = first.calls \o second.calls,
                            !.console = first.console \o second.console]
        ELSE [kind  |-> "object",
              value |->
                [originalTokens   |-> first.value,
                 compressedTokens |-> second.value,
                 tokensSaved      |-> tokensSaved(first.value, second.value),
                 percentageSaved  |->
                     percentageSaved(first.value, second.value),
                 costSavings      |-> costSavings(first.value, second.value)],
              calls   |-> first.calls \o second.calls,
              console |-> first.console \o second.console]

(***************************************************************************)
(* Inputs.                                                                 *)
(***************************************************************************)
MaxAtoms == 3

MaxChars == 5

MaxStemLen == 3

\* trim's defaults (the destructuring of `options`)
DefaultOptions ==
    [removeStopwords |-> TRUE, removePunctuation |-> FALSE,
     removeSpaces |-> TRUE, useStemming |-> FALSE,
     stemmer |-> "porter", language |-> "english"]

\* Texts for trim: up to MaxAtoms fragments, each a word, a space, a
\* punctuation mark, an apostrophe or a non-ASCII letter; and the README's
\* example.
Atoms == {"The", "not", "Running", "'", ",", " ", NonAsciiLetter}

RECURSIVE AtomTexts(_)
AtomTexts(n) ==
    IF n = 0 THEN {""}
    ELSE LET shorter == AtomTexts(n - 1)
         IN  shorter \cup {s \o a : s \in shorter, a \in Atoms}

\* The text and the options of the README's programmatic-usage example.
ReadmeText == "The artificial intelligence system is processing the data"

ReadmeOptions ==
    [removeStopwords |-> TRUE, removePunctuation |-> FALSE,
     removeSpaces |-> TRUE, useStemming |-> TRUE,
     stemmer |-> "porter", language |-> "english"]

Texts == AtomTexts(MaxAtoms) \cup {ReadmeText}

StemmerTypes == {"porter", "snowball", "lancaster", "unknown"}

Languages == {"english", "spanish", "klingon", "constructor"}

\* Every combination of the four toggles, the stemmer tag and the language
\* tag.  The stemmer tag is only read when useStemming is set, so it varies
\* only then; "snowball" resolves to the same stem as "porter" and is left
\* to SpecStem.
Configs ==
    {o \in [removeStopwords : BOOLEAN, removePunctuation : BOOLEAN,
            removeSpaces : BOOLEAN, useStemming : BOOLEAN,
            stemmer : StemmerTypes \ {"snowball"}, language : Languages] :
        ~o.useStemming => o.stemmer = "porter"}

\* Strings for the tokenizer's functions: every string of up to MaxChars
\* units over a letter, a digit-like word unit, the apostrophe, a space, a
\* punctuation mark and a non-ASCII letter.
Units == {"a", "_", "'", " ", ",", NonAsciiLetter}

RECURSIVE UnitStrings(_)
UnitStrings(n) ==
    IF n = 0 THEN {""}
    ELSE LET shorter == UnitStrings(n - 1)
         IN  shorter \cup {s \o u : s \in shorter, u \in Units}

\* Words for the stemmers: a stem of up to MaxStemLen units followed by one
\* of the endings the rule tables test, in four letter-case patterns.
StemUnits == {"a", "t", "l", "1"}

RECURSIVE StemStrings(_)
StemStrings(n) ==
    IF n = 0 THEN {""}
    ELSE LET shorter == StemStrings(n - 1)
         IN  shorter \cup {s \o u : s \in shorter, u \in StemUnits}

Endings ==
    {"", "sses", "ies", "ss", "s", "eed", "ed", "ing", "y", "e", "ll"}
    \cup {step2Suffixes[k][1] : k \in 1..Len(step2Suffixes)}
    \cup {step3Suffixes[k][1] : k \in 1..Len(step3Suffixes)}
    \cup {step4Suffixes[k] : k \in 1..Len(step4Suffixes)}
    \cup {rules[k][1] : k \in 1..Len(rules)}

CaseModes == {"lower", "Capital", "UPPER", "mIxEd"}

RECURSIVE WithCaseFrom(_, _, _)
WithCaseFrom(w, mode, i) ==
    IF i > Len(w) THEN ""
    ELSE (IF \/ mode = "UPPER"
             \/ mode = "Capital" /\ i = 1
             \/ mode = "mIxEd" /\ i % 2 = 0
          THEN toUpperCaseChar(Char(w, i)) ELSE Char(w, i))
         \o WithCaseFrom(w, mode, i + 1)

Words ==
    {WithCaseFrom(s \o e, mode, 1) :
        s \in StemStrings(MaxStemLen), e \in Endings, mode \in CaseModes}

\* Words for the stages of the light stemmer: up to MaxSyllables pieces
\* followed by one of the endings, in lower case.  They include "opinion",
\* "agreement", "agreed", "greed" and "grization".
MaxSyllables == 3

Syllables == {"a", "e", "gr", "op", "in"}

RECURSIVE SyllableStrings(_)
SyllableStrings(n) ==
    IF n = 0 THEN {""}
    ELSE LET shorter == SyllableStrings(n - 1)
         IN  shorter \cup {s \o y : s \in shorter, y \in Syllables}

PorterWords == {s \o e : s \in SyllableStrings(MaxSyllables), e \in Endings}

\* Texts for getCompressionStats: up to MaxFragments fragments, each a
\* short word, a blank, a line break or one of two phrases of 23 and of 17
\* units.
MaxFragments == 2

Fragments == {"aa", " ", "\n", "The quick brown fox is ", "compress the text"}

RECURSIVE FragmentTexts(_)
FragmentTexts(n) ==
    IF n = 0 THEN {""}
    ELSE LET shorter == FragmentTexts(n - 1)
         IN  shorter \cup {s \o f : s \in shorter, f \in Fragments}

StatsTexts == FragmentTexts(MaxFragments)

\* Texts for the token counter, and how a call of the encoder can end: it
\* throws, or it returns between 1 and MaxTokenCount tokens (a non-empty
\* text has at least one).
CounterTexts == {"", "aa", "compress the text"}

MaxTokenCount == 10

EncodeOutcomes ==
    {[kind |-> "throws"]}
    \cup {[kind |-> "tokens", length |-> n] : n \in 1..MaxTokenCount}

(***************************************************************************)
(* SpecTrim: one call trim(text, options).                                 *)
(***************************************************************************)
InitTrim ==
    /\ text \in Texts
    /\ options \in Configs
    /\ result = NoResult
    /\ word = ""
    /\ stemmerType = "porter"
    /\ locals = NoLocals
    /\ compressed = ""
    /\ encodeCalls = << >>
    /\ console = << >>
    /\ InitPage
    /\ pc = "init"

TrimCall ==
    /\ pc = "init"
    /\ locals' = trimLocals(text, options)
    /\ result' = trimReturn(locals', options)
    /\ pc' = "done"
    /\ UNCHANGED <<text, options, word, stemmerType, compressed, encodeCalls,
                 console, page>>

NextTrim == TrimCall

SpecTrim == InitTrim /\ [][NextTrim]_vars

(***************************************************************************)
(* SpecTokenizer: one call of a tokenizer function on `text`.              *)
(***************************************************************************)
InitTokenizer ==
    /\ text \in UnitStrings(MaxChars)
    /\ options = DefaultOptions
    /\ result = NoResult
    /\ word = ""
    /\ stemmerType = "porter"
    /\ locals = NoLocals
    /\ compressed = ""
    /\ encodeCalls = << >>
    /\ console = << >>
    /\ InitPage
    /\ pc = "init"

MergeContractionsCall ==
    /\ pc = "init"
    /\ result' = [kind |-> "string", value |-> mergeContractions(text)]
    /\ pc' = "mergeContractions"
    /\ UNCHANGED <<text, options, word, stemmerType, locals, compressed,
                 encodeCalls, console, page>>

TokenizeCall ==
    /\ pc = "init"
    /\ result' = [kind |-> "tokens", value |-> tokenize(text)]
    /\ pc' = "tokenize"
    /\ UNCHANGED <<text, options, word, stemmerType, locals, compressed,
                 encodeCalls, console, page>>

IsWordCall ==
    /\ pc = "init"
    /\ result' = [kind |-> "boolean", value |-> isWord(text)]
    /\ pc' = "isWord"
    /\ UNCHANGED <<text, options, word, stemmerType, locals, compressed,
                 encodeCalls, console, page>>

IsPunctuationCall ==
    /\ pc = "init"
    /\ result' = [kind |-> "boolean", value |-> isPunctuation(text)]
    /\ pc' = "isPunctuation"
    /\ UNCHANGED <<text, options, word, stemmerType, locals, compressed,
                 encodeCalls, console, page>>

NextTokenizer ==
    \/ MergeContractionsCall
    \/ TokenizeCall
    \/ IsWordCall
    \/ IsPunctuationCall

SpecTokenizer == InitTokenizer /\ [][NextTokenizer]_vars

(***************************************************************************)
(* SpecStem: one call getStemmer(stemmerType).stem(word).                  *)
(***************************************************************************)
InitStem ==
    /\ text = ""
    /\ options = DefaultOptions
    /\ result = NoResult
    /\ word \in Words
    /\ stemmerType \in StemmerTypes
    /\ locals = NoLocals
    /\ compressed = ""
    /\ encodeCalls = << >>
    /\ console = << >>
    /\ InitPage
    /\ pc = "init"

StemCall ==
    /\ pc = "init"
    /\ result' = [kind |-> "string", value |-> getStemmer(stemmerType, word)]
    /\ pc' = "done"
    /\ UNCHANGED <<text, options, word, stemmerType, locals, compressed,
                 encodeCalls, console, page>>

NextStem == StemCall

SpecStem == InitStem /\ [][NextStem]_vars

(***************************************************************************)
(* SpecStats: one call getCompressionStats(text, compressed).              *)
(***************************************************************************)
InitStats ==
    /\ text \in StatsTexts
    /\ options = DefaultOptions
    /\ result = NoResult
    /\ word = ""
    /\ stemmerType = "porter"
    /\ locals = NoLocals
    /\ compressed \in StatsTexts
    /\ encodeCalls = << >>
    /\ console = << >>
    /\ InitPage
    /\ pc = "init"

GetCompressionStatsCall ==
    /\ pc = "init"
    /\ result' = [kind |-> "object",
                  value |-> getCompressionStats(text, compressed)]
    /\ pc' = "done"
    /\ UNCHANGED <<text, options, word, stemmerType, locals, compressed,
                   encodeCalls, console, page>>

NextStats == GetCompressionStatsCall

SpecStats == InitStats /\ [][NextStats]_vars

(***************************************************************************)
(* SpecTokenCounter: one call countTokens(text) or                         *)
(* calculateTokenSavings(text, compressed), the encoder ending each of its *)
(* calls in any of the ways it can.                                        *)
(***************************************************************************)
InitTokenCounter ==
    /\ text \in CounterTexts
    /\ options = DefaultOptions
    /\ result = NoResult
    /\ word = ""
    /\ stemmerType = "porter"
    /\ locals = NoLocals
    /\ compressed \in CounterTexts
    /\ encodeCalls = << >>
    /\ console = << >>
    /\ InitPage
    /\ pc = "init"

CountTokensCall ==
    /\ pc = "init"
    /\ \E outcome \in EncodeOutcomes :
         \E r \in {countTokens(text, outcome)} :
             /\ result' = [kind |-> r.kind, value |-> r.value]
             /\ encodeCalls' = r.calls
             /\ console' = r.console
    /\ pc' = "countTokens"
    /\ UNCHANGED <<text, options, word, stemmerType, locals, compressed, page>>

CalculateTokenSavingsCall ==
    /\ pc = "init"
    /\ \E o1 \in EncodeOutcomes, o2 \in EncodeOutcomes :
         \E r \in {calculateTokenSavings(text, compressed, o1, o2)} :
             /\ result' = [kind |-> r.kind, value |-> r.value]
             /\ encodeCalls' = r.calls
             /\ console' = r.console
    /\ pc' = "calculateTokenSavings"
    /\ UNCHANGED <<text, options, word, stemmerType, locals, compressed, page>>

NextTokenCounter ==
    \/ CountTokensCall
    \/ CalculateTokenSavingsCall

SpecTokenCounter == InitTokenCounter /\ [][NextTokenCounter]_vars

(***************************************************************************)
(* SpecPorter: PorterStemmer.stem(word), one statement at a time.          *)
(* locals holds stem's originalCase and w.                                 *)
(***************************************************************************)
InitPorter ==
    /\ text = ""
    /\ options = DefaultOptions
    /\ result = NoResult
    /\ word \in PorterWords
    /\ stemmerType = "porter"
    /\ locals = NoLocals
    /\ compressed = ""
    /\ encodeCalls = << >>
    /\ console = << >>
    /\ InitPage
    /\ pc = "init"

\* Everything but stem's locals, result and position
StemFrame ==
    <<text, options, word, stemmerType, compressed, encodeCalls, console, page>>

\* if (word.length < 3) return word; originalCase = ...; w = ...
StemBegin ==
    /\ pc = "init"
    /\ IF Len(word) < 3
       THEN /\ result' = [kind |-> "string", value |-> word]
            /\ pc' = "done"
            /\ UNCHANGED locals
       ELSE /\ locals' = [originalCase |-> getCase(word),
                          w |-> toLowerCase(word)]
            /\ pc' = "step1a"
            /\ UNCHANGED result
    /\ UNCHANGED StemFrame

Step1a ==
    /\ pc = "step1a"
    /\ locals' = [locals EXCEPT !.w = step1a(locals.w)]
    /\ pc' = "step1b"
    /\ UNCHANGED <<result, StemFrame>>

Step1b ==
    /\ pc = "step1b"
    /\ locals' = [locals EXCEPT !.w = step1b(locals.w)]
    /\ pc' = "step1c"
    /\ UNCHANGED <<result, StemFrame>>

Step1c ==
    /\ pc = "step1c"
    /\ locals' = [locals EXCEPT !.w = step1c(locals.w)]
    /\ pc' = "step2"
    /\ UNCHANGED <<result, StemFrame>>

Step2 ==
    /\ pc = "step2"
    /\ locals' = [locals EXCEPT !.w = step2(locals.w)]
    /\ pc' = "step3"
    /\ UNCHANGED <<result, StemFrame>>

Step3 ==
    /\ pc = "step3"
    /\ locals' = [locals EXCEPT !.w = step3(locals.w)]
    /\ pc' = "step4"
    /\ UNCHANGED <<result, StemFrame>>

Step4 ==
    /\ pc = "step4"
    /\ locals' = [locals EXCEPT !.w = step4(locals.w)]
    /\ pc' = "step5"
    /\ UNCHANGED <<result, StemFrame>>

Step5 ==
    /\ pc = "step5"
    /\ locals' = [locals EXCEPT !.w = step5(locals.w)]
    /\ pc' = "restoreCase"
    /\ UNCHANGED <<result, StemFrame>>

\* return this.restoreCase(w, originalCase)
StemReturn ==
    /\ pc = "restoreCase"
    /\ result' = [kind |-> "string",
                  value |-> restoreCase(locals.w, locals.originalCase)]
    /\ pc' = "done"
    /\ UNCHANGED <<locals, StemFrame>>

NextPorter ==
    \/ StemBegin
    \/ Step1a
    \/ Step1b
    \/ Step1c
    \/ Step2
    \/ Step3
    \/ Step4
    \/ Step5
    \/ StemReturn

SpecPorter == InitPorter /\ [][NextPorter]_vars

(***************************************************************************)
(* SpecCopy: clicks on the copy button.  copyToClipboard is async: a call  *)
(* runs to its await, and resumes when the clipboard write settles; the    *)
(* callback of its setTimeout runs 2 seconds after that.  Timers of equal  *)
(* delay fire in the order they were set.                                  *)
(***************************************************************************)
MaxClicks == 5

\* Everything but the page's state
library ==
    <<text, options, result, word, stemmerType, locals, compressed, encodeCalls>>

InitCopy ==
    /\ text = ""
    /\ options = DefaultOptions
    /\ result = NoResult
    /\ word = ""
    /\ stemmerType = "porter"
    /\ locals = NoLocals
    /\ compressed = ""
    /\ encodeCalls = << >>
    /\ console = << >>
    /\ InitPage
    /\ pc = "page"

\* A click: copyToClipboard reads the output text, starts the clipboard
\* write and waits for it.
copyToClipboard ==
    /\ clicks < MaxClicks
    /\ clicks' = clicks + 1
    /\ pendingWrites' = pendingWrites + 1
    /\ UNCHANGED <<library, console, pc, copyBtn, timers, alerts>>

\* The write resolved: the call takes the button's label as originalText,
\* shows the feedback and sets the reset timer.
writeTextResolved ==
    /\ pendingWrites > 0
    /\ pendingWrites' = pendingWrites - 1
    /\ LET originalText == copyBtn.textContent
       IN  /\ copyBtn' = [textContent |-> "Copied!",
                          backgroundColor |-> "#10b981"]
           /\ timers' = Append(timers, originalText)
    /\ UNCHANGED <<library, console, pc, clicks, alerts>>

\* The write was rejected: the catch block.
writeTextRejected ==
    /\ pendingWrites > 0
    /\ pendingWrites' = pendingWrites - 1
    /\ console' = Append(console, "Failed to copy text:")
    /\ alerts' = Append(alerts, "Failed to copy text to clipboard")
    /\ UNCHANGED <<library, pc, copyBtn, timers, clicks>>

\* The callback of the oldest pending timer.
resetTimerFired ==
    /\ timers # << >>
    /\ copyBtn' = [textContent |-> Head(timers), backgroundColor |-> ""]
    /\ timers' = Tail(timers)
    /\ UNCHANGED <<library, console, pc, pendingWrites, clicks, alerts>>

NextCopy ==
    \/ copyToClipboard
    \/ writeTextResolved
    \/ writeTextRejected
    \/ resetTimerFired

SpecCopy == InitCopy /\ [][NextCopy]_vars

(***************************************************************************)
(* Vocabulary of the properties: the word-character class as the         *)
(* specification defines it (letters, digits, underscore, apostrophe),     *)
(* stated apart from the code's regular expressions.                       *)
(***************************************************************************)
WordCharacter(c) ==
    c \in UpperLetters \cup LowerLetters \cup Digits \cup {"_", "'"}

Whitespace(c) == c \in {" ", "\t", "\n"}

WordToken(tok) ==
    Len(tok) >= 1 /\ \A i \in 1..Len(tok) : WordCharacter(Char(tok, i))

PunctuationToken(tok) ==
    Len(tok) = 1 /\ ~WordCharacter(Char(tok, 1)) /\ ~Whitespace(Char(tok, 1))

\* s without its white-space units
RECURSIVE StripSpaces(_)
StripSpaces(s) ==
    IF s = "" THEN ""
    ELSE (IF Whitespace(Char(s, 1)) THEN "" ELSE Char(s, 1))
         \o StripSpaces(SubSeq(s, 2, Len(s)))

\* a is a subsequence of b (the units of a appear in b, in order)
RECURSIVE IsSubsequence(_, _)
IsSubsequence(a, b) ==
    IF a = "" THEN TRUE
    ELSE IF b = "" THEN FALSE
    ELSE IF Char(a, 1) = Char(b, 1)
         THEN IsSubsequence(SubSeq(a, 2, Len(a)), SubSeq(b, 2, Len(b)))
         ELSE IsSubsequence(a, SubSeq(b, 2, Len(b)))

\* trim returned a string
Returned == pc = "done" /\ result.kind = "string"

AnyReduction(o) ==
    o.removeStopwords \/ o.removePunctuation \/ o.removeSpaces \/ o.useStemming

(***************************************************************************)
(* C1                                                                      *)
(***************************************************************************)
\* C1 as stated: for every non-empty text and every configuration with at
\* least one reduction option enabled, the string trim returns is no longer
\* than the text.
C1_Original ==
    (Returned /\ text # "" /\ AnyReduction(options))
        => Len(result.value) <= Len(text)

\* C1, amended: for every non-empty text and every configuration in which
\* removeSpaces or removePunctuation is enabled, the string trim returns is
\* no longer than the text.
C1_Amended ==
    (Returned /\ text # "" /\ (options.removeSpaces \/ options.removePunctuation))
        => Len(result.value) <= Len(text)

\* trim has joined stemmed words with spaces, punctuation removed, into a
\* shorter non-empty string.
C1_Witness ==
    /\ Returned
    /\ ~options.removeSpaces /\ options.removePunctuation /\ options.useStemming
    /\ Len(locals.processedTokens) >= 2
    /\ Len(result.value) < Len(text)

(***************************************************************************)
(* C2                                                                      *)
(***************************************************************************)
\* An apostrophe at unit i of s that sits between two word characters.
C2_Inner(s, i) ==
    /\ 1 < i /\ i < Len(s)
    /\ Char(s, i) = "'"
    /\ IsW(Char(s, i - 1)) /\ IsW(Char(s, i + 1))

RECURSIVE C2_DeleteInnerFrom(_, _)
C2_DeleteInnerFrom(s, i) ==
    IF i > Len(s) THEN ""
    ELSE (IF C2_Inner(s, i) THEN "" ELSE Char(s, i))
         \o C2_DeleteInnerFrom(s, i + 1)

\* C2: mergeContractions deletes every apostrophe between two word
\* characters and nothing else, so that no apostrophe of its output has a
\* word character on both sides.
C2_DeletesEveryInnerApostrophe ==
    pc = "mergeContractions"
        => /\ result.value = C2_DeleteInnerFrom(text, 1)
           /\ \A i \in 1..Len(result.value) : ~C2_Inner(result.value, i)

(***************************************************************************)
(* C3                                                                      *)
(***************************************************************************)
\* The drop rule of C3 for a word token, under the current options.
C3_Dropped(tok) ==
    /\ options.removeStopwords
    /\ toLowerCase(tok) \in stopwordSet(options.language)
    /\ toLowerCase(tok) \notin negationWords

C3_Kept(tok) == ~C3_Dropped(tok)

\* C3: the word tokens trim keeps are exactly the word tokens of the input
\* that the drop rule does not drop, in their original letter case when
\* stemming is off.
C3_DroppedIffStopword ==
    Returned =>
        LET words    == SelectSeq(locals.tokens, WordToken)
            kept     == SelectSeq(words, C3_Kept)
            survived == SelectSeq(locals.processedTokens, WordToken)
        IN  /\ Len(survived) = Len(kept)
            /\ ~options.useStemming => survived = kept

\* No token of the input is a lone apostrophe (the one token that isWord
\* and isPunctuation both accept).
NoLoneApostrophe == \A k \in 1..Len(locals.tokens) : locals.tokens[k] # "'"

\* C3 on the inputs without a lone apostrophe token: there it holds.
C3_ExceptLoneApostrophe ==
    (Returned /\ NoLoneApostrophe) => C3_DroppedIffStopword

(***************************************************************************)
(* C4                                                                      *)
(***************************************************************************)
\* A text in a script outside the ASCII word class: non-ASCII letters and
\* white space only, with at least one letter.
C4_ForeignScript(t) ==
    /\ \A i \in 1..Len(t) : Char(t, i) = NonAsciiLetter \/ Whitespace(Char(t, i))
    /\ \E i \in 1..Len(t) : Char(t, i) = NonAsciiLetter

\* C4, for texts whose non-white-space units are non-ASCII letters: in
\* every configuration, every such unit of the input appears in the string
\* trim returns, in order.
C4_ForeignScriptKept ==
    (Returned /\ C4_ForeignScript(text))
        => IsSubsequence(StripSpaces(text), result.value)

(***************************************************************************)
(* C5                                                                      *)
(***************************************************************************)
\* Single spaces between fragments, no leading or trailing space.
C5_SpaceNormalized(t) ==
    /\ \A i \in 1..Len(t) : Whitespace(Char(t, i)) => Char(t, i) = " "
    /\ t # "" => Char(t, 1) # " " /\ Char(t, Len(t)) # " "
    /\ \A i \in 1..(Len(t) - 1) : ~(Char(t, i) = " " /\ Char(t, i + 1) = " ")

\* C5: with the four reduction options off, tokenizing what trim returns
\* for a space-normalized text gives the token sequence of the text after
\* contraction merging.
C5_TokensPreserved ==
    (/\ Returned
     /\ ~AnyReduction(options)
     /\ C5_SpaceNormalized(text))
        => tokenize(result.value) = tokenize(mergeContractions(text))

\* C5 on the inputs without a lone apostrophe token: there it holds.
C5_ExceptLoneApostrophe ==
    (Returned /\ NoLoneApostrophe) => C5_TokensPreserved

(***************************************************************************)
(* C6                                                                      *)
(***************************************************************************)
\* The join C6 describes, from token i on: no separator before the first
\* token nor before a punctuation token, one space before a later word
\* token.
RECURSIVE C6_JoinFrom(_, _)
C6_JoinFrom(toks, i) ==
    IF i > Len(toks) THEN ""
    ELSE (IF i > 1 /\ WordToken(toks[i]) THEN " " ELSE "")
         \o toks[i] \o C6_JoinFrom(toks, i + 1)

\* C6: with removeSpaces off, trim returns the surviving tokens joined with
\* one space before each later word token and none before a punctuation
\* token, and the string neither starts nor ends with a space.
C6_JoinedWithSpaces ==
    (Returned /\ ~options.removeSpaces)
        => /\ result.value = C6_JoinFrom(locals.processedTokens, 1)
           /\ result.value # ""
                => /\ Char(result.value, 1) # " "
                   /\ Char(result.value, Len(result.value)) # " "

\* C6 on the inputs without a lone apostrophe token: there it holds.
C6_ExceptLoneApostrophe ==
    (Returned /\ NoLoneApostrophe) => C6_JoinedWithSpaces

(***************************************************************************)
(* C7                                                                      *)
(***************************************************************************)
\* C7: isPunctuation is true exactly of one unit that is neither a word
\* character nor white space, isWord exactly of a non-empty run of word
\* characters, and no token of tokenize is both.
C7_Classification ==
    /\ pc = "isPunctuation" => result.value = PunctuationToken(text)
    /\ pc = "isWord" => result.value = WordToken(text)
    /\ pc = "tokenize"
         => \A k \in 1..Len(result.value) :
                ~(isWord(result.value[k]) /\ isPunctuation(result.value[k]))

(***************************************************************************)
(* C8                                                                      *)
(***************************************************************************)
IsLetter(c) == c \in UpperLetters \cup LowerLetters

\* C8: for every stemmer variant and every word of length >= 3, a letter at
\* position i of stem(word) is upper case exactly when the word has an
\* upper-case letter at position i.
C8_CasePreserved ==
    (pc = "done" /\ word # "" /\ Len(word) >= 3)
        => \A i \in 1..Len(result.value) :
               IsLetter(Char(result.value, i))
                   => (Char(result.value, i) \in UpperLetters
                         <=> (i <= Len(word) /\ Char(word, i) \in UpperLetters))

\* A mixed-case word was shortened by stemming and its stem has both an
\* upper-case and a lower-case letter.
C8_Witness ==
    /\ pc = "done" /\ word # ""
    /\ Len(result.value) < Len(word)
    /\ \E i \in 1..Len(result.value) : Char(result.value, i) \in UpperLetters
    /\ \E i \in 1..Len(result.value) : Char(result.value, i) \in LowerLetters
    /\ toLowerCase(result.value) # SubSeq(toLowerCase(word), 1, Len(result.value))

(***************************************************************************)
(* C9                                                                      *)
(***************************************************************************)
\* C9: for every language tag that is not a key of the stopword table,
\* trim does not fail and returns what it returns for "english".
C9_UnknownLanguageIsEnglish ==
    (pc = "done" /\ options.language \notin DOMAIN stopwords)
        => /\ result.kind = "string"
           /\ result = trim(text, [options EXCEPT !.language = "english"])

\* C9 for the language tags that are not inherited property names: there
\* it holds.
C9_ExceptInheritedName ==
    options.language \notin ObjectPrototypeKeys => C9_UnknownLanguageIsEnglish

\* C9, second half (SpecStem): a stemmer tag other than the three known
\* ones stems every word as the light variant does.
C9_UnknownStemmerIsLight ==
    (pc = "done" /\ word # "" /\ stemmerType \notin {"porter", "snowball", "lancaster"})
        => result.value = PorterStem(word)

(***************************************************************************)
(* C10                                                                     *)
(***************************************************************************)
C10_WhitespaceOnly(t) == \A i \in 1..Len(t) : Whitespace(Char(t, i))

C10_PunctuationOnly(t) ==
    /\ \A i \in 1..Len(t) :
           Whitespace(Char(t, i)) \/ PunctuationToken(Char(t, i))
    /\ \E i \in 1..Len(t) : PunctuationToken(Char(t, i))

\* C10: trim returns a string for every text and configuration: the empty
\* string for an empty or white-space-only text, and for a
\* punctuation-only text the punctuation without white space, or the empty
\* string when removePunctuation is set.
C10_Total ==
    pc = "done"
        => /\ result.kind = "string"
           /\ C10_WhitespaceOnly(text) => result.value = ""
           /\ C10_PunctuationOnly(text)
                => result.value = IF options.removePunctuation THEN ""
                                  ELSE StripSpaces(text)

\* C10 for the language tags that are not inherited property names: there
\* it holds.
C10_ExceptInheritedName ==
    options.language \notin ObjectPrototypeKeys => C10_Total

(***************************************************************************)
(* C11                                                                     *)
(***************************************************************************)
\* x equals y up to floating-point rounding: they differ by no more than
\* 2^-40 of y.
C11_Close(x, y) ==
    \E d \in {Minus(x, y)} : d.sign = 0 \/ (y.sign # 0 /\ d.e + 41 <= y.e)

\* The cost record C11 describes for entry k of the price table.
C11_CostRecord(rec, k, originalTokens, compressedTokens) ==
    /\ rec.model = MODEL_PRICING[k].model
    /\ C11_Close(rec.inputCost,
                 DividedByInt(Times(FromInt(originalTokens - compressedTokens),
                                    Price(MODEL_PRICING[k].input)),
                              1000000))
    /\ rec.outputCost = Zero
    /\ rec.totalCost = rec.inputCost

C12_Words(s) ==
    Cardinality({i \in 1..Len(s) :
                    /\ ~Whitespace(Char(s, i))
                    /\ i = 1 \/ Whitespace(Char(s, i - 1))})

\* round(100 * (o - c) / o) for o > 0: the nearest integer, a tie going up.
C12_RoundedPercent(o, c) == (200 * (o - c) + o) \div (2 * o)

\* 100 * (o - c) / o lies exactly halfway between two integers.
C12_Tie(o, c) == o > 0 /\ (200 * (o - c)) % (2 * o) = o

\* C12: getCompressionStats returns the raw lengths, the numbers of
\* non-empty fragments between white-space runs, and charReduction =
\* round(100 * (originalChars - compressedChars) / originalChars), 0 when
\* originalChars is 0 and negative when the compressed string is the longer
\* one.
C12_Stats ==
    pc = "done" =>
        LET v == result.value
            o == Len(text)
            c == Len(compressed)
        IN  /\ v.originalChars = o
            /\ v.compressedChars = c
            /\ v.originalWords = C12_Words(text)
            /\ v.compressedWords = C12_Words(compressed)
            /\ o = 0 => v.charReduction = 0
            /\ o > 0 => v.charReduction = C12_RoundedPercent(o, c)
            /\ (o > 0 /\ c > o) => v.charReduction < 0

\* C12 away from the ties: there it holds.
C12_ExceptTies ==
    ~C12_Tie(Len(text), Len(compressed)) => C12_Stats

\* The scenario of C12: getCompressionStats("aaaa", "aa") gives 50.
C12_Scenario ==
    (pc = "done" /\ text = "aaaa" /\ compressed = "aa")
        => /\ result.value.originalChars = 4
           /\ result.value.compressedChars = 2
           /\ result.value.charReduction = 50

(***************************************************************************)
(* C13                                                                     *)
(***************************************************************************)
\* The encoder was called on the original text and on the compressed text,
\* and failed on the original only.
C13_FailedOnOriginalOnly ==
    /\ Len(encodeCalls) = 2
    /\ encodeCalls[1].text = text /\ encodeCalls[1].outcome.kind = "throws"
    /\ encodeCalls[2].text = compressed
    /\ encodeCalls[2].outcome.kind = "tokens"

\* C13: countTokens always returns a number: 0 when the encoder fails, and
\* 0 without calling the encoder for the empty text.  calculateTokenSavings
\* always returns its record, and when the encoder fails on the original
\* text only, the record has originalTokens 0, tokensSaved =
\* -compressedTokens and percentageSaved 0.
C13_NeverRaises ==
    /\ pc = "countTokens" =>
           /\ result.kind = "number"
           /\ text = "" => (result.value = 0 /\ encodeCalls = << >>)
           /\ text # "" =>
                  /\ Len(encodeCalls) = 1 /\ encodeCalls[1].text = text
                  /\ encodeCalls[1].outcome.kind = "throws"
                         => result.value = 0
                  /\ encodeCalls[1].outcome.kind = "tokens"
                         => result.value = encodeCalls[1].outcome.length
    /\ pc = "calculateTokenSavings" =>
           /\ result.kind = "object"
           /\ C13_FailedOnOriginalOnly =>
                  /\ result.value.originalTokens = 0
                  /\ result.value.compressedTokens
                         = encodeCalls[2].outcome.length
                  /\ result.value.tokensSaved
                         = -result.value.compressedTokens
                  /\ result.value.percentageSaved = Zero

\* The encoder failed on the original text only, and the failure was logged
\* once.
C13_Witness ==
    /\ pc = "calculateTokenSavings"
    /\ C13_FailedOnOriginalOnly
    /\ result.kind = "object"
    /\ result.value.tokensSaved < 0
    /\ Len(console) = 1

(***************************************************************************)
(* C14                                                                     *)
(***************************************************************************)
\* C14: for the README's example text and options, trim returns
\* "artificintelligsystemprocessdata".
C14_ReadmeExample ==
    (Returned /\ text = ReadmeText /\ options = ReadmeOptions)
        => result.value = "artificintelligsystemprocessdata"

\* What trim returns for the README's example: "artificial" is stemmed to
\* "artifici".
C14_ActualOutput ==
    (Returned /\ text = ReadmeText /\ options = ReadmeOptions)
        => /\ locals.processedTokens
                = <<"artifici", "intellig", "system", "process", "data">>
           /\ result.value = "artificiintelligsystemprocessdata"

C16_ComesFrom(p, t) ==
    \/ p = t
    \/ options.useStemming /\ p = getStemmer(options.stemmer, t)

\* The tokens of p from i on come, in order, from tokens of t from j on,
\* each from a different one.
RECURSIVE C16_EmbedsFrom(_, _, _, _)
C16_EmbedsFrom(p, t, i, j) ==
    IF i > Len(p) THEN TRUE
    ELSE IF j > Len(t) THEN FALSE
    ELSE IF C16_ComesFrom(p[i], t[j]) THEN C16_EmbedsFrom(p, t, i + 1, j + 1)
    ELSE C16_EmbedsFrom(p, t, i, j + 1)

\* C16: in every configuration the surviving tokens, each possibly replaced
\* by its stem, are a subsequence of the tokenized input in the same order,
\* and the output is those tokens one after the other, with nothing but
\* white space between them.
C16_OrderPreserved ==
    Returned =>
        /\ C16_EmbedsFrom(locals.processedTokens, locals.tokens, 1, 1)
        /\ StripSpaces(result.value) = joinNoSpaces(locals.processedTokens)
        /\ options.removeSpaces
               => result.value = joinNoSpaces(locals.processedTokens)

\* A token was dropped, a token was stemmed, and two different tokens
\* survived.
C16_Witness ==
    /\ Returned
    /\ options.useStemming
    /\ Len(locals.processedTokens) >= 2
    /\ Len(locals.processedTokens) < Len(locals.tokens)
    /\ locals.processedTokens[1] # locals.processedTokens[2]
    /\ \E k \in 1..Len(locals.processedTokens) :
           \A j \in 1..Len(locals.tokens) :
               locals.processedTokens[k] # locals.tokens[j]

(***************************************************************************)
(* C17                                                                     *)
(***************************************************************************)
\* C17: step4 shortens a word ending in "ion" only when the stem before
\* "ion" has measure > 1 and ends in "s" or "t".  (No other suffix of
\* step4's list ends a word that ends in "ion".)
C17_IonNeedsSOrT ==
    [][(pc = "step4" /\ endsWith(locals.w, "ion") /\ locals'.w # locals.w)
           => LET stem == dropLast(locals.w, 3)
              IN  /\ measure(stem) > 1
                  /\ endsWith(stem, "s") \/ endsWith(stem, "t")]_vars

\* What step4 does with a word ending in "ion": it removes "ion" exactly
\* when the stem before it has measure > 1.
C17_ActualIonRule ==
    [][(pc = "step4" /\ endsWith(locals.w, "ion"))
           => locals'.w = IF measure(dropLast(locals.w, 3)) > 1
                          THEN dropLast(locals.w, 3) ELSE locals.w]_vars

(***************************************************************************)
(* C18                                                                     *)
(***************************************************************************)
\* The entries of a stage's table whose suffix ends w, as table positions.
C18_Matching(w, suffixes) ==
    {k \in 1..Len(suffixes) : endsWith(w, suffixes[k][1])}

C18_First(S) == CHOOSE k \in S : \A j \in S : k <= j

\* step4's list as a table of <<suffix, replacement>>: removal only.
C18_Step4Table == [k \in 1..Len(step4Suffixes) |-> <<step4Suffixes[k], "">>]

\* w after a stage in which only the first matching entry can be applied:
\* it is applied when the measure of the stem before its suffix is above
\* the stage's gate, and otherwise w stays as it is.
C18_OnlyFirstMatch(w, suffixes, gate) ==
    LET matching == C18_Matching(w, suffixes)
    IN  IF matching = {} THEN w
        ELSE LET entry == suffixes[C18_First(matching)]
                 stem  == dropLast(w, Len(entry[1]))
             IN  IF measure(stem) > gate THEN stem \o entry[2] ELSE w

\* C18: in step2, step3 and step4 the first table entry whose suffix ends
\* the word is the only one that can be applied; when its measure gate
\* fails, the stage leaves the word unchanged.  (step4's gate is taken as
\* the measure test that step4 applies to every suffix.)
C18_FirstMatchWins ==
    [][/\ pc = "step2"
          => locals'.w = C18_OnlyFirstMatch(locals.w, step2Suffixes, 0)
       /\ pc = "step3"
          => locals'.w = C18_OnlyFirstMatch(locals.w, step3Suffixes, 0)
       /\ pc = "step4"
          => locals'.w = C18_OnlyFirstMatch(locals.w, C18_Step4Table, 1)]_vars

\* w after a stage that applies the first entry that both matches and
\* passes the gate.
C18_FirstPassing(w, suffixes, gate) ==
    LET passing == {k \in C18_Matching(w, suffixes) :
                       measure(dropLast(w, Len(suffixes[k][1]))) > gate}
    IN  IF passing = {} THEN w
        ELSE LET entry == suffixes[C18_First(passing)]
             IN  dropLast(w, Len(entry[1])) \o entry[2]

\* What the stages do: each applies at most one entry, the first one in
\* table order whose suffix ends the word and whose stem passes the gate.
C18_FirstPassingWins ==
    [][/\ pc = "step2"
          => locals'.w = C18_FirstPassing(locals.w, step2Suffixes, 0)
       /\ pc = "step3"
          => locals'.w = C18_FirstPassing(locals.w, step3Suffixes, 0)
       /\ pc = "step4"
          => locals'.w = C18_FirstPassing(locals.w, C18_Step4Table, 1)]_vars

(***************************************************************************)
(* C19                                                                     *)
(***************************************************************************)
\* The rules that qualify for the lower-case word lw: the suffix ends it
\* and at least 2 units are left before the suffix.
C19_Qualifying(lw) ==
    {k \in 1..Len(rules) :
        /\ endsWith(lw, rules[k][1])
        /\ Len(lw) - Len(rules[k][1]) >= 2}

\* C19: for a word of length >= 3 the aggressive stemmer applies exactly the
\* first qualifying rule in table order, which is the qualifying rule with
\* the longest suffix, and no other rule; when no rule qualifies the word is
\* returned as it was.
C19_FirstIsLongest ==
    (pc = "done" /\ stemmerType = "lancaster" /\ Len(word) >= 3)
        => LET lw         == toLowerCase(word)
               qualifying == C19_Qualifying(lw)
           IN  IF qualifying = {} THEN result.value = word
               ELSE LET k == C18_First(qualifying)
                    IN  /\ result.value =
                              restoreCase(
                                  dropLast(lw, Len(rules[k][1])) \o rules[k][2],
                                  getCase(word))
                        /\ \A j \in qualifying \ {k} :
                              Len(rules[j][1]) < Len(rules[k][1])

\* The aggressive stemmer has stemmed a word for which several rules
\* qualify.
C19_Witness ==
    /\ pc = "done" /\ stemmerType = "lancaster" /\ Len(word) >= 3
    /\ Cardinality(C19_Qualifying(toLowerCase(word))) >= 2
    /\ result.value # word

(***************************************************************************)
(* C20                                                                     *)
(***************************************************************************)
\* C20 as stated: in step1b a word ending in "eed" keeps that ending only
\* if the measure of the stem before "eed" is > 0, and otherwise loses
\* "eed" entirely.
C20_EedKeptOrDropped ==
    [][(pc = "step1b" /\ endsWith(locals.w, "eed"))
           => LET stem == dropLast(locals.w, 3)
              IN  /\ measure(stem) > 0 => locals'.w = locals.w
                  /\ measure(stem) = 0 => locals'.w = stem]_vars

\* C20, amended: in step1b a word ending in "eed" loses its final "d", so
\* that it ends in "ee", when the measure of the stem before "eed" is > 0;
\* otherwise the word stays as it is, "eed" included.
C20_EedBecomesEe ==
    [][(pc = "step1b" /\ endsWith(locals.w, "eed"))
           => LET stem == dropLast(locals.w, 3)
              IN  /\ measure(stem) > 0 => locals'.w = stem \o "ee"
                  /\ measure(stem) = 0 => locals'.w = locals.w]_vars

\* step1b has acted on a word ending in "eed" whose stem has measure > 0
\* (word is in lower case, so step1b's input is step1a(word)).
C20_Witness ==
    /\ pc = "step1c"
    /\ endsWith(step1a(word), "eed")
    /\ measure(dropLast(step1a(word), 3)) > 0
    /\ locals.w = dropLast(step1a(word), 3) \o "ee"

(***************************************************************************)
(* C21                                                                     *)
(***************************************************************************)
\* C21: for every stemmer variant and every non-empty word,
\* 1 <= length(stem(word)) <= length(word), and a word shorter than 3 is
\* returned unchanged.
C21_StemLengthBound ==
    (pc = "done" /\ word # "")
        => /\ 1 <= Len(result.value)
           /\ Len(result.value) <= Len(word)
           /\ Len(word) < 3 => result.value = word

\* A word of 3 units or more has been stemmed down to a single unit.
C21_Witness ==
    /\ pc = "done"
    /\ Len(word) >= 3
    /\ Len(result.value) = 1

(***************************************************************************)
(* C22                                                                     *)
(***************************************************************************)
\* The units of the tokens toks[i..], one token after the other.
RECURSIVE C22_UnitsFrom(_, _)
C22_UnitsFrom(toks, i) ==
    IF i > Len(toks) THEN << >>
    ELSE [j \in 1..Len(toks[i]) |-> Char(toks[i], j)]
         \o C22_UnitsFrom(toks, i + 1)

\* C22: with removeSpaces on, for every text, the empty one included, what
\* trim returns is the surviving tokens one after the other with nothing
\* between them, holds no white-space unit, and is no longer than the text.
C22_Concatenated ==
    (Returned /\ options.removeSpaces)
        => LET units == C22_UnitsFrom(locals.processedTokens, 1)
           IN  /\ Len(result.value) = Len(units)
               /\ \A i \in 1..Len(units) : Char(result.value, i) = units[i]
               /\ \A i \in 1..Len(result.value) :
                      ~Whitespace(Char(result.value, i))
               /\ Len(result.value) <= Len(text)

\* trim has joined two adjacent word tokens, and at least three tokens in
\* all, of a text with white space, with nothing between them.
C22_Witness ==
    /\ Returned /\ options.removeSpaces
    /\ \E i \in 1..Len(text) : Whitespace(Char(text, i))
    /\ Len(locals.processedTokens) >= 3
    /\ \E i \in 1..(Len(locals.processedTokens) - 1) :
           /\ WordToken(locals.processedTokens[i])
           /\ WordToken(locals.processedTokens[i + 1])
    /\ Len(result.value) < Len(text)

\* trim has returned the empty string for the empty text.
C22_EmptyText ==
    (Returned /\ options.removeSpaces /\ text = "") => result.value = ""

(***************************************************************************)
(* C23                                                                     *)
(***************************************************************************)
\* Clicks were made, no call waits for its write and no timer is pending.
C23_Settled == clicks >= 1 /\ pendingWrites = 0 /\ timers = << >>

\* C23: after any clicks, with any order of write completions and timer
\* callbacks, once no write and no reset timer is pending the copy button
\* shows the label it had before the first click.
C23_LabelRestored ==
    C23_Settled => copyBtn.textContent = InitialLabel

\* What holds: after a single click the label is restored.
C23_OneClickRestored ==
    (C23_Settled /\ clicks = 1) => copyBtn.textContent = InitialLabel

\* What holds: the background colour is always restored.
C23_ColourRestored ==
    C23_Settled => copyBtn.backgroundColor = ""

====
